---- MODULE Spec2Model ----
(***************************************************************************)
(* Account-state storage core of py-evm: State facade (evm/vm/state.py),   *)
(* AccountDB (evm/db/account.py), CachedRLPDB (evm/db/cached_rlp.py) and   *)
(* HashTrie (evm/db/hash_trie.py) over a journaling key-value store.       *)
(*                                                                         *)
(* Byte strings are finite sequences of integers.  keccak is modelled as   *)
(* an ideal (collision-free) hash: a marker followed by the preimage.      *)
(* The hexary trie (external library) is modelled by its contract: the     *)
(* root hash is the hash of the canonical serialisation of the trie's      *)
(* (key, value) pairs, the serialisation is stored in the backing store    *)
(* under the root hash, and the empty trie has the fixed blank root and    *)
(* needs no stored node.  Nodes are never removed from the store.          *)
(*                                                                         *)
(* CachedRLPDB reads its store with self._db.get(key, b''); over the       *)
(* account trie this is the trie lookup, which yields b'' for an absent    *)
(* key.  Deleting an absent key from a trie is a no-op.                    *)
(*                                                                         *)
(* A revert or commit of a checkpoint the journal does not know raises the *)
(* journal's error, which is fatal: the run ends in the state the failed   *)
(* call left (variable crashed).                                           *)
(*                                                                         *)
(* Unsigned 256-bit integers are scaled down: MaxUint stands for 2^256 - 1.*)
(***************************************************************************)
EXTENDS Integers, Sequences, FiniteSets, TLC

\* ------------------------------------------------------------------------
\* Bounds of the model
\* ------------------------------------------------------------------------
MaxSteps == 3
MaxStorageSteps == 3
MaxJournalSteps == 8
MaxCheckpointSteps == 6
MaxSnapshots == 2
MaxUint == 65535
MaxCacheSize == 2
MaxCacheSteps == 4
MaxCodeSteps == 3
MaxTwinSteps == 4
MaxRangeSteps == 3
MaxIsolationSteps == 3

\* canonical 20-byte addresses 0x..01 and 0x..02
Addr(n) == [i \in 1..19 |-> 0] \o <<n>>
Addresses == {Addr(1), Addr(2)}
Slots == {0, 1}
\* unsigned integers handed to the API: zero, one and the largest value
UintValues == {0, 1, MaxUint}
\* byte strings handed to set_code: empty, one zero byte, two bytes
Codes == {<<>>, <<0>>, <<96, 0>>}
\* integers handed to the API, in and out of the unsigned range
AnyValues == {-1, 1, MaxUint, MaxUint + 1}

\* ------------------------------------------------------------------------
\* Bytes, keccak, structured encoding
\* ------------------------------------------------------------------------
EmptyMap == [k \in {} |-> <<>>]

Keccak(bs) == <<-1>> \o bs

\* a length-prefixed item of the structured encoding
Frame(bs) == <<Len(bs)>> \o bs

RECURSIVE Items(_)
Items(bs) ==
    IF bs = <<>> THEN <<>>
    ELSE <<SubSeq(bs, 2, 1 + bs[1])>> \o Items(SubSeq(bs, 2 + bs[1], Len(bs)))

RECURSIVE IntToBigEndian(_)
IntToBigEndian(n) ==
    IF n < 256 THEN <<n>> ELSE IntToBigEndian(n \div 256) \o <<n % 256>>

RECURSIVE BigEndianToInt(_)
BigEndianToInt(bs) ==
    IF bs = <<>> THEN 0
    ELSE 256 * BigEndianToInt(SubSeq(bs, 1, Len(bs) - 1)) + bs[Len(bs)]

\* rlp.sedes.big_endian_int: zero serialises to the empty string
SerializeInt(n) == IF n = 0 THEN <<>> ELSE IntToBigEndian(n)

RlpEncodeInt(n) == Frame(SerializeInt(n))
RlpDecodeInt(bs) == BigEndianToInt(Items(bs)[1])

Pad32(bs) == [i \in 1..(32 - Len(bs)) |-> 0] \o bs

\* (mutant) every slot is mapped to the key of slot 0
storage_key_map_OneKey(slot) == Pad32(IntToBigEndian(0))

storage_key_map(slot) == Pad32(IntToBigEndian(slot))

EMPTY_SHA3 == Keccak(<<>>)
BLANK_ROOT_HASH == Keccak(Frame(<<>>))

Account(n, b, sr, ch) ==
    [nonce |-> n, balance |-> b, storage_root |-> sr, code_hash |-> ch]

ZeroAccount == Account(0, 0, BLANK_ROOT_HASH, EMPTY_SHA3)

\* the record a read yields when a trie node it needs is not in the store
MissingAccount == Account(-1, -1, <<-2>>, <<-2>>)

RlpEncodeAccount(acct) ==
    Frame(SerializeInt(acct.nonce)) \o Frame(SerializeInt(acct.balance))
        \o Frame(acct.storage_root) \o Frame(acct.code_hash)

RlpDecodeAccount(bs) ==
    LET it == Items(bs)
    IN  Account(BigEndianToInt(it[1]), BigEndianToInt(it[2]), it[3], it[4])

\* ------------------------------------------------------------------------
\* Key-value maps
\* ------------------------------------------------------------------------
MapSet(m, k, v) == [x \in DOMAIN m \cup {k} |-> IF x = k THEN v ELSE m[x]]
MapDel(m, k) == [x \in DOMAIN m \ {k} |-> m[x]]
MapMerge(lo, hi) ==
    [x \in DOMAIN lo \cup DOMAIN hi |-> IF x \in DOMAIN hi THEN hi[x] ELSE lo[x]]

\* ------------------------------------------------------------------------
\* Trie: canonical serialisation of the (key, value) pairs
\* ------------------------------------------------------------------------
RECURSIVE SeqLess(_, _)
SeqLess(a, b) ==
    IF a = <<>> THEN b # <<>>
    ELSE IF b = <<>> THEN FALSE
    ELSE IF a[1] # b[1] THEN a[1] < b[1]
    ELSE SeqLess(Tail(a), Tail(b))

MinKey(ks) == CHOOSE k \in ks : \A o \in ks \ {k} : SeqLess(k, o)

RECURSIVE EncodeNode(_)
EncodeNode(m) ==
    IF DOMAIN m = {} THEN <<>>
    ELSE LET k == MinKey(DOMAIN m)
         IN  Frame(k) \o Frame(m[k]) \o EncodeNode(MapDel(m, k))

DecodeNode(bs) ==
    LET it == Items(bs)
        n == Len(it) \div 2
    IN  [k \in {it[2 * i - 1] : i \in 1..n} |->
            it[2 * (CHOOSE i \in 1..n : it[2 * i - 1] = k)]]

TrieRootOf(m) == IF DOMAIN m = {} THEN BLANK_ROOT_HASH ELSE Keccak(EncodeNode(m))

\* the trie rooted at root_hash can be read from db
TrieReadable(db, root_hash) == root_hash = BLANK_ROOT_HASH \/ root_hash \in DOMAIN db

TrieContents(db, root_hash) ==
    IF root_hash = BLANK_ROOT_HASH \/ root_hash \notin DOMAIN db THEN EmptyMap
    ELSE DecodeNode(db[root_hash])

\* ------------------------------------------------------------------------
\* JournalDB: a base changeset (id 0, never handed out) under a stack of
\* checkpoints.  A changeset is [id, data] with data a map key -> value.
\* ------------------------------------------------------------------------
NewJournal == <<[id |-> 0, data |-> EmptyMap]>>

JournalIds(j) == {j[i].id : i \in 2..Len(j)}

JournalHas(j, id) == id \in JournalIds(j)

JournalIndex(j, id) == CHOOSE i \in 2..Len(j) : j[i].id = id

RECURSIVE JournalOverlay(_)
JournalOverlay(j) ==
    IF j = <<>> THEN EmptyMap
    ELSE MapMerge(JournalOverlay(SubSeq(j, 1, Len(j) - 1)), j[Len(j)].data)

\* what get/contains see: changesets top-down, then the wrapped DB
JournalView(j, w) == MapMerge(w, JournalOverlay(j))

\* set: recorded in the topmost changeset
JournalSet(j, k, v) ==
    [j EXCEPT ![Len(j)] = [id |-> j[Len(j)].id, data |-> MapSet(j[Len(j)].data, k, v)]]

JournalRecord(j, id) == Append(j, [id |-> id, data |-> EmptyMap])

\* discard(id): drop id and every changeset on top of it
JournalDiscard(j, id) == SubSeq(j, 1, JournalIndex(j, id) - 1)

\* commit(id): collapse id and every changeset on top of it into id's parent
JournalCommit(j, id) ==
    LET i == JournalIndex(j, id)
        merged == JournalOverlay(SubSeq(j, i, Len(j)))
    IN  [SubSeq(j, 1, i - 1) EXCEPT
            ![i - 1] = [id |-> j[i - 1].id, data |-> MapMerge(j[i - 1].data, merged)]]

\* persist(): flush everything to the wrapped DB and clear the stack
JournalPersistWrapped(j, w) == MapMerge(w, JournalOverlay(j))

\* ------------------------------------------------------------------------
\* LRU of decoded objects: entries [key, obj], most recently used first
\* ------------------------------------------------------------------------
cache_size == 2048

LRUContains(c, k) == \E i \in 1..Len(c) : c[i].key = k

LRUIndex(c, k) == CHOOSE i \in 1..Len(c) : c[i].key = k

LRUPeek(c, k) == c[LRUIndex(c, k)].obj

LRUWithout(c, k) == SelectSeq(c, LAMBDA e : e.key # k)

\* lru[k]: a hit moves the entry to the front
LRUTouch(c, k) == <<c[LRUIndex(c, k)]>> \o LRUWithout(c, k)

\* lru[k] = obj: insert at the front, evict the least recently used
LRUPut(c, k, obj, size) ==
    LET full == <<[key |-> k, obj |-> obj]>> \o LRUWithout(c, k)
    IN  SubSeq(full, 1, IF Len(full) > size THEN size ELSE Len(full))

\* ------------------------------------------------------------------------
\* CachedRLPDB
\* ------------------------------------------------------------------------
\* (mutant) no default_result: an absent key surfaces as not-found
GetItemUncached_NoDefault(encoded_object, default_result) ==
    IF encoded_object = <<>> THEN MissingAccount
    ELSE RlpDecodeAccount(encoded_object)

\* _get_item_uncached, given what self._db.get(key, b'') returned
GetItemUncached(encoded_object, default_result) ==
    IF encoded_object = <<>> THEN default_result
    ELSE RlpDecodeAccount(encoded_object)

\* __getitem__: the cache after the read
CachedGetItemCache(c, k, encoded_object, default_result, size) ==
    IF LRUContains(c, k) THEN LRUTouch(c, k)
    ELSE LRUPut(c, k, GetItemUncached(encoded_object, default_result), size)

\* __getitem__: the object returned
CachedGetItem(c, k, encoded_object, default_result, size) ==
    LRUPeek(CachedGetItemCache(c, k, encoded_object, default_result, size), k)

\* __setitem__: the cache after the write (the encoded object goes to the db)
CachedSetItemCache(c, k, obj, size) == LRUPut(c, k, obj, size)

\* __delitem__: the cache after the delete (the key is deleted from the db)
CachedDelItemCache(c, k) == c

\* ------------------------------------------------------------------------
\* HashTrie over a key-value view db: every key is hashed with keccak
\* ------------------------------------------------------------------------
\* self._db.get(key, b'') / __getitem__: b'' when the key is absent
HashTrieGet(db, root_hash, key) ==
    LET m == TrieContents(db, root_hash)
    IN  IF Keccak(key) \in DOMAIN m THEN m[Keccak(key)] ELSE <<>>

HashTrieContains(db, root_hash, key) ==
    Keccak(key) \in DOMAIN TrieContents(db, root_hash)

\* set: the contents of the trie after the write
HashTrieSet(db, root_hash, key, value) ==
    MapSet(TrieContents(db, root_hash), Keccak(key), value)

\* delete: the contents of the trie after the delete (a missing key is a no-op)
HashTrieDelete(db, root_hash, key) ==
    MapDel(TrieContents(db, root_hash), Keccak(key))

\* ------------------------------------------------------------------------
\* The State and its AccountDB.  A state s is the record
\*   [wrapped, journal, root, cache]:
\*   wrapped  the backing BaseDB handed to the State
\*   journal  the JournalDB's changesets (State._db)
\*   root     the root hash of the account trie (State._trie.root_hash)
\*   cache    the LRU of the AccountDB's CachedRLPDB (account_db._accounts)
\* ------------------------------------------------------------------------
\* (mutant) the AccountDB is handed the backing DB instead of the journal
AccountRawDb_Backing == "wrapped"

\* _build_account_db: the store handed to the AccountDB as raw_db
AccountRawDb == "journal"

\* __init__: State(db, execution_context, state_root)
NewState(db, state_root) ==
    [wrapped |-> db, journal |-> NewJournal, root |-> state_root, cache |-> <<>>]

TrieView(s) == JournalView(s.journal, s.wrapped)

RawView(s) ==
    IF AccountRawDb = "journal" THEN JournalView(s.journal, s.wrapped) ELSE s.wrapped

RawSet(s, k, v) ==
    IF AccountRawDb = "journal" THEN [s EXCEPT !.journal = JournalSet(@, k, v)]
    ELSE [s EXCEPT !.wrapped = MapSet(@, k, v)]

\* the account trie after its contents became m: node stored, root rebound
AccountTrieStore(s, m) ==
    LET node == EncodeNode(m)
    IN  IF DOMAIN m = {} THEN [s EXCEPT !.root = BLANK_ROOT_HASH]
        ELSE [s EXCEPT !.root = Keccak(node), !.journal = JournalSet(@, Keccak(node), node)]

\* a storage trie after its contents became m: node stored in the raw db
StorageTrieStore(s, m) ==
    LET node == EncodeNode(m)
    IN  IF DOMAIN m = {} THEN s ELSE RawSet(s, Keccak(node), node)

\* account = self._accounts[address]: can the read be served
AccountReadable(s, address) ==
    LRUContains(s.cache, address) \/ TrieReadable(TrieView(s), s.root)

\* account = self._accounts[address]: the record returned
ReadAccount(s, address) ==
    IF ~AccountReadable(s, address) THEN MissingAccount
    ELSE CachedGetItem(s.cache, address, HashTrieGet(TrieView(s), s.root, address),
                       ZeroAccount, cache_size)

\* account = self._accounts[address]: the state after the read
AfterRead(s, address) ==
    IF ~AccountReadable(s, address) THEN s
    ELSE [s EXCEPT !.cache =
            CachedGetItemCache(@, address, HashTrieGet(TrieView(s), s.root, address),
                               ZeroAccount, cache_size)]

\* self._accounts[address] = account
SetAccount(s, address, account) ==
    LET c == [s EXCEPT !.cache = CachedSetItemCache(@, address, account, cache_size)]
    IN  AccountTrieStore(c, HashTrieSet(TrieView(c), c.root, address,
                                        RlpEncodeAccount(account)))

\* del self._accounts[address]
DelAccount(s, address) ==
    LET c == [s EXCEPT !.cache = CachedDelItemCache(@, address)]
    IN  AccountTrieStore(c, HashTrieDelete(TrieView(c), c.root, address))

\* validate_uint256: an integer in [0, 2^256 - 1]
validate_uint256(value) == value \in 0..MaxUint

StorageReadable(s, address) ==
    /\ AccountReadable(s, address)
    /\ TrieReadable(RawView(s), ReadAccount(s, address).storage_root)

get_storage(s, address, slot) ==
    IF ~StorageReadable(s, address) THEN -1
    ELSE LET account == ReadAccount(s, address)
             slot_as_key == storage_key_map(slot)
         IN  IF HashTrieContains(RawView(s), account.storage_root, slot_as_key)
             THEN RlpDecodeInt(HashTrieGet(RawView(s), account.storage_root, slot_as_key))
             ELSE 0

\* (mutant) the account record is not rewritten with the new storage root
set_storage_NoWriteBack(s, address, slot, value) ==
    LET account == ReadAccount(s, address)
        r == AfterRead(s, address)
        slot_as_key == storage_key_map(slot)
        storage ==
            IF value # 0
            THEN HashTrieSet(RawView(r), account.storage_root, slot_as_key,
                             RlpEncodeInt(value))
            ELSE HashTrieDelete(RawView(r), account.storage_root, slot_as_key)
    IN  StorageTrieStore(r, storage)

\* (mutant) a zero value is stored like any other instead of deleting the slot
set_storage_StoreZero(s, address, slot, value) ==
    LET account == ReadAccount(s, address)
        r == AfterRead(s, address)
        storage == HashTrieSet(RawView(r), account.storage_root, storage_key_map(slot),
                               RlpEncodeInt(value))
    IN  SetAccount(StorageTrieStore(r, storage), address,
                   [account EXCEPT !.storage_root = TrieRootOf(storage)])

\* a validation error leaves the state as it is
set_storage(s, address, slot, value) ==
    IF ~validate_uint256(value) \/ ~validate_uint256(slot) THEN s
    ELSE
    LET account == ReadAccount(s, address)
        r == AfterRead(s, address)
        slot_as_key == storage_key_map(slot)
        storage ==
            IF value # 0
            THEN HashTrieSet(RawView(r), account.storage_root, slot_as_key,
                             RlpEncodeInt(value))
            ELSE HashTrieDelete(RawView(r), account.storage_root, slot_as_key)
    IN  SetAccount(StorageTrieStore(r, storage), address,
                   [account EXCEPT !.storage_root = TrieRootOf(storage)])

\* (mutant) the account record is rewritten with the storage root it had
delete_storage_KeepRoot(s, address) ==
    SetAccount(AfterRead(s, address), address, ReadAccount(s, address))

delete_storage(s, address) ==
    SetAccount(AfterRead(s, address), address,
               [ReadAccount(s, address) EXCEPT !.storage_root = BLANK_ROOT_HASH])

get_balance(s, address) == ReadAccount(s, address).balance

\* (mutant) the balance is written without the range check
set_balance_NoCheck(s, address, balance) ==
    SetAccount(AfterRead(s, address), address,
               [ReadAccount(s, address) EXCEPT !.balance = balance])

set_balance(s, address, balance) ==
    IF ~validate_uint256(balance) THEN s
    ELSE SetAccount(AfterRead(s, address), address,
                    [ReadAccount(s, address) EXCEPT !.balance = balance])

\* BaseAccountDB.delta_balance: get_balance reads the account, then set_balance
delta_balance(s, address, delta) ==
    set_balance(AfterRead(s, address), address, get_balance(s, address) + delta)

get_nonce(s, address) == ReadAccount(s, address).nonce

set_nonce(s, address, nonce) ==
    IF ~validate_uint256(nonce) THEN s
    ELSE SetAccount(AfterRead(s, address), address,
                    [ReadAccount(s, address) EXCEPT !.nonce = nonce])

\* increment_nonce: get_nonce reads the account, then set_nonce
increment_nonce(s, address) ==
    set_nonce(AfterRead(s, address), address, get_nonce(s, address) + 1)

get_code_hash(s, address) == ReadAccount(s, address).code_hash

get_code(s, address) ==
    IF ~AccountReadable(s, address) THEN <<-2>>
    ELSE IF get_code_hash(s, address) \in DOMAIN RawView(s)
         THEN RawView(s)[get_code_hash(s, address)]
         ELSE <<>>

\* (mutant) the code is not written to the code store
set_code_NoStore(s, address, code) ==
    SetAccount(AfterRead(s, address), address,
               [ReadAccount(s, address) EXCEPT !.code_hash = Keccak(code)])

set_code(s, address, code) ==
    LET account == ReadAccount(s, address)
        code_hash == Keccak(code)
    IN  SetAccount(RawSet(AfterRead(s, address), code_hash, code), address,
                   [account EXCEPT !.code_hash = code_hash])

\* (mutant) the account record is rewritten with the code hash it had
delete_code_KeepHash(s, address) ==
    SetAccount(AfterRead(s, address), address, ReadAccount(s, address))

delete_code(s, address) ==
    SetAccount(AfterRead(s, address), address,
               [ReadAccount(s, address) EXCEPT !.code_hash = EMPTY_SHA3])

delete_account(s, address) == DelAccount(s, address)

touch_account(s, address) ==
    SetAccount(AfterRead(s, address), address, ReadAccount(s, address))

\* BaseState.revert on a known checkpoint
revert(s, snapshot) ==
    [s EXCEPT !.root = snapshot.root,
              !.journal = JournalDiscard(@, snapshot.id),
              !.cache = <<>>]

\* BaseState.revert on an unknown checkpoint: the root is rebound, then
\* discard raises; the AccountDB is not rebuilt
revert_failed(s, snapshot) == [s EXCEPT !.root = snapshot.root]

\* (mutant) commit leaves the journal as it is
commit_NoCollapse(s, snapshot) == s

\* (mutant) commit rebinds the root to the one stored in the snapshot
commit_RebindRoot(s, snapshot) ==
    [s EXCEPT !.root = snapshot.root, !.journal = JournalCommit(@, snapshot.id)]

\* BaseState.commit on a known checkpoint
commit(s, snapshot) == [s EXCEPT !.journal = JournalCommit(@, snapshot.id)]

\* BaseState.persist
persist(s) ==
    [s EXCEPT !.wrapped = JournalPersistWrapped(s.journal, s.wrapped),
              !.journal = NewJournal]

\* BaseState.snapshot with a fresh checkpoint id
snapshot_state(s, id) == [s EXCEPT !.journal = JournalRecord(@, id)]

\* ------------------------------------------------------------------------
\* What a caller can observe: the root and the result of every query
\* ------------------------------------------------------------------------
Queries(s) ==
    [a \in Addresses |->
        [balance |-> get_balance(s, a),
         nonce |-> get_nonce(s, a),
         code |-> get_code(s, a),
         code_hash |-> get_code_hash(s, a),
         storage |-> [sl \in Slots |-> get_storage(s, a, sl)]]]

Obs(s) == [root |-> s.root, q |-> Queries(s)]

\* a State whose backing DB holds one persisted account with balance and storage
Genesis ==
    persist(set_storage(set_balance(NewState(EmptyMap, BLANK_ROOT_HASH), Addr(1), 1),
                        Addr(1), 0, 1))

InitialStates == {NewState(EmptyMap, BLANK_ROOT_HASH), NewState(Genesis.wrapped, Genesis.root)}

\* ------------------------------------------------------------------------
\* State machine
\* ------------------------------------------------------------------------
VARIABLES
    wrapped,    \* the backing BaseDB
    journal,    \* JournalDB changesets
    root,       \* account trie root hash
    cache,      \* account LRU
    snaps,      \* snapshots (root, checkpoint id) returned to the caller
    next_id,    \* next fresh checkpoint id
    crashed,    \* a journal-misuse error was raised (fatal: the run ends)
    last,       \* history: the last operation, its arguments and outcome
    since,      \* history: per checkpoint id, what happened since it was taken
    snap_obs,   \* history: per checkpoint id, Obs just before snapshot()
    ended,      \* history: checkpoint ids ended by a revert, a commit or persist
    steps,      \* number of operations performed
    lru_db, lru_cache, lru_size, lru_last, lru_steps,
    twin        \* a second, independent State given the same operations

state_vars == <<wrapped, journal, root, cache, snaps, next_id, crashed, last, since,
                snap_obs, ended, steps>>
lru_vars == <<lru_db, lru_cache, lru_size, lru_last, lru_steps>>
vars == <<state_vars, lru_vars, twin>>

St == [wrapped |-> wrapped, journal |-> journal, root |-> root, cache |-> cache]

Install(s) ==
    /\ wrapped' = s.wrapped
    /\ journal' = s.journal
    /\ root' = s.root
    /\ cache' = s.cache

NoChain == [armed |-> FALSE, sroot |-> <<>>, pre_val |-> 0]

NoObs == Obs(NewState(EmptyMap, BLANK_ROOT_HASH))

LiveIds == JournalIds(journal)

\* the record of an operation: its name and arguments, whether it returned
\* normally, and what held just before it (pat: the history of the checkpoint
\* it names; obs: an observation, for an account operation the one just before
\* it; chain: the storage root and slot value before
\* a nonzero storage write; live: the journal's checkpoints; prev_del: the
\* operation before it was delete_account on the same address; prev_clr: it
\* was delete_storage on the same address; had: the account trie stored a
\* record for the address)
Last(op, a, sl, v, c, id, ok, pat, obs, chain) ==
    [op |-> op, addr |-> a, slot |-> sl, val |-> v, code |-> c, id |-> id, ok |-> ok,
     pat |-> pat, obs |-> obs, chain |-> chain, live |-> LiveIds,
     prev_del |-> last.op = "delete_account" /\ last.addr = a,
     prev_clr |-> last.op = "delete_storage" /\ last.addr = a,
     had |-> HashTrieContains(TrieView(St), root, a)]

LruIdle ==
    /\ lru_db = EmptyMap
    /\ lru_cache = <<>>
    /\ lru_size = 0
    /\ lru_last = [op |-> "init", key |-> <<>>, ret |-> ZeroAccount, ref |-> ZeroAccount,
                   ok |-> TRUE]
    /\ lru_steps = 0

\* no second State: the specifications of a single State leave twin alone
NoTwin == [on |-> FALSE, s |-> NewState(EmptyMap, BLANK_ROOT_HASH),
           roots |-> [k \in {} |-> <<>>]]

\* the State starts as s
InitState(s) ==
    /\ wrapped = s.wrapped
    /\ journal = s.journal
    /\ root = s.root
    /\ cache = s.cache
    /\ snaps = {}
    /\ next_id = 1
    /\ crashed = FALSE
    /\ last = [op |-> "init", addr |-> <<>>, slot |-> 0, val |-> 0, code |-> <<>>,
               id |-> 0, ok |-> TRUE, pat |-> "none", obs |-> NoObs, chain |-> NoChain,
               live |-> {}, prev_del |-> FALSE, prev_clr |-> FALSE, had |-> FALSE]
    /\ since = [k \in {} |-> "other"]
    /\ snap_obs = [k \in {} |-> NoObs]
    /\ ended = {}
    /\ steps = 0
    /\ LruIdle

Init == twin = NoTwin /\ \E s \in InitialStates : InitState(s)

\* the effect of one more account mutation on the history of a checkpoint
SinceAfterMutation(p) ==
    CASE p = "fresh" -> "mutations"
      [] p = "mutations" -> "mutations"
      [] p = "inner_open" -> "inner_mutated"
      [] p = "inner_mutated" -> "inner_mutated"
      [] OTHER -> "other"

\* an account mutation op(address, ...) leading to state s2
Mutation(op, a, sl, v, c, s2, chain) ==
    /\ ~crashed
    /\ Install(s2)
    /\ steps' = steps + 1
    /\ last' = Last(op, a, sl, v, c, 0, TrieReadable(TrieView(St), root), "none",
                    Obs(St), chain)
    /\ since' = [k \in DOMAIN since |->
                    IF k \in LiveIds THEN SinceAfterMutation(since[k]) ELSE "other"]
    /\ UNCHANGED <<snaps, next_id, crashed, snap_obs, ended, lru_vars>>

SetBalance(a, v) == Mutation("set_balance", a, 0, v, <<>>, set_balance(St, a, v), NoChain)

SetNonce(a, v) == Mutation("set_nonce", a, 0, v, <<>>, set_nonce(St, a, v), NoChain)

SetCode(a, c) == Mutation("set_code", a, 0, 0, c, set_code(St, a, c), NoChain)

DeleteCode(a) == Mutation("delete_code", a, 0, 0, <<>>, delete_code(St, a), NoChain)

SetStorage(a, sl, v) ==
    Mutation("set_storage", a, sl, v, <<>>, set_storage(St, a, sl, v),
             IF v # 0
             THEN [armed |-> TRUE, sroot |-> ReadAccount(St, a).storage_root,
                   pre_val |-> get_storage(St, a, sl)]
             ELSE IF /\ last.op = "set_storage" /\ last.addr = a
                     /\ last.slot = sl /\ last.val # 0
                  THEN last.chain
                  ELSE NoChain)

DeleteStorage(a) ==
    Mutation("delete_storage", a, 0, 0, <<>>, delete_storage(St, a), NoChain)

DeleteAccount(a) ==
    Mutation("delete_account", a, 0, 0, <<>>, delete_account(St, a), NoChain)

TouchAccount(a) ==
    Mutation("touch_account", a, 0, 0, <<>>, touch_account(St, a), NoChain)

\* an account operation with an integer argument: valid tells whether the
\* range checks pass; when they do not, the validation error is raised
RangeOp(op, a, sl, v, valid, s2) ==
    /\ ~crashed
    /\ Install(s2)
    /\ steps' = steps + 1
    /\ last' = Last(op, a, sl, v, <<>>, 0, valid, "none", Obs(St), NoChain)
    /\ since' = [k \in DOMAIN since |->
                    IF ~valid THEN since[k]
                    ELSE IF k \in LiveIds THEN SinceAfterMutation(since[k]) ELSE "other"]
    /\ UNCHANGED <<snaps, next_id, crashed, snap_obs, ended, lru_vars>>

SetBalanceAny(a, v) ==
    RangeOp("set_balance", a, 0, v, validate_uint256(v), set_balance(St, a, v))

SetNonceAny(a, v) ==
    RangeOp("set_nonce", a, 0, v, validate_uint256(v), set_nonce(St, a, v))

SetStorageAny(a, sl, v) ==
    RangeOp("set_storage", a, sl, v, validate_uint256(v) /\ validate_uint256(sl),
            set_storage(St, a, sl, v))

DeltaBalance(a, d) ==
    RangeOp("delta_balance", a, 0, d, validate_uint256(get_balance(St, a) + d),
            delta_balance(St, a, d))

IncrementNonce(a) ==
    RangeOp("increment_nonce", a, 0, 0, validate_uint256(get_nonce(St, a) + 1),
            increment_nonce(St, a))

\* any query on address a: get_balance, get_nonce, get_code, get_code_hash,
\* get_storage all start with self._accounts[address]
Query(a) ==
    /\ ~crashed
    /\ Install(AfterRead(St, a))
    /\ steps' = steps + 1
    /\ last' = Last("query", a, 0, 0, <<>>, 0, AccountReadable(St, a), "none", Obs(St),
                    NoChain)
    /\ UNCHANGED <<snaps, next_id, crashed, since, snap_obs, ended, lru_vars>>

Snapshot ==
    /\ ~crashed
    /\ next_id <= MaxSnapshots
    /\ Install(snapshot_state(St, next_id))
    /\ snaps' = snaps \cup {[root |-> root, id |-> next_id]}
    /\ next_id' = next_id + 1
    /\ snap_obs' = MapSet(snap_obs, next_id, Obs(St))
    /\ since' = [k \in DOMAIN since \cup {next_id} |->
                    IF k = next_id THEN "fresh"
                    ELSE IF k \in LiveIds /\ since[k] = "mutations" THEN "inner_open"
                    ELSE "other"]
    /\ last' = Last("snapshot", <<>>, 0, 0, <<>>, next_id, TRUE, "none", NoObs, NoChain)
    /\ steps' = steps + 1
    /\ UNCHANGED <<crashed, ended, lru_vars>>

Revert(sn) ==
    /\ ~crashed
    /\ sn \in snaps
    /\ IF JournalHas(journal, sn.id)
       THEN /\ Install(revert(St, sn))
            /\ crashed' = FALSE
            /\ last' = Last("revert", <<>>, 0, 0, <<>>, sn.id, TRUE, since[sn.id],
                            snap_obs[sn.id], NoChain)
       ELSE /\ Install(revert_failed(St, sn))
            /\ crashed' = TRUE
            /\ last' = Last("revert", <<>>, 0, 0, <<>>, sn.id, FALSE, "unknown",
                            Obs(St), NoChain)
    /\ since' = [k \in DOMAIN since |-> "other"]
    /\ ended' = IF JournalHas(journal, sn.id)
                THEN ended \cup {k \in LiveIds : k >= sn.id} ELSE ended
    /\ steps' = steps + 1
    /\ UNCHANGED <<snaps, next_id, snap_obs, lru_vars>>

Commit(sn) ==
    /\ ~crashed
    /\ sn \in snaps
    /\ IF JournalHas(journal, sn.id)
       THEN /\ Install(commit(St, sn))
            /\ crashed' = FALSE
            /\ last' = Last("commit", <<>>, 0, 0, <<>>, sn.id, TRUE, since[sn.id],
                            Obs(St), NoChain)
            /\ since' = [k \in DOMAIN since |->
                            IF /\ k \in JournalIds(commit(St, sn).journal)
                               /\ since[k] = "inner_mutated"
                            THEN "inner_committed" ELSE "other"]
       ELSE /\ Install(St)
            /\ crashed' = TRUE
            /\ last' = Last("commit", <<>>, 0, 0, <<>>, sn.id, FALSE, "unknown",
                            Obs(St), NoChain)
            /\ since' = since
    /\ ended' = IF JournalHas(journal, sn.id)
                THEN ended \cup {k \in LiveIds : k >= sn.id} ELSE ended
    /\ steps' = steps + 1
    /\ UNCHANGED <<snaps, next_id, snap_obs, lru_vars>>

Persist ==
    /\ ~crashed
    /\ Install(persist(St))
    /\ steps' = steps + 1
    /\ last' = Last("persist", <<>>, 0, 0, <<>>, 0, TRUE,
                    IF last.op = "commit" /\ last.ok /\ last.pat = "mutations"
                    THEN "committed_mutations" ELSE "none",
                    IF last.op = "commit" THEN last.obs ELSE NoObs, NoChain)
    /\ since' = [k \in DOMAIN since |-> "other"]
    /\ ended' = ended \cup LiveIds
    /\ UNCHANGED <<snaps, next_id, crashed, snap_obs, lru_vars>>

\* ------------------------------------------------------------------------
\* Specifications
\* ------------------------------------------------------------------------
\* every account operation on both addresses, one storage slot
Next ==
    \/ \E a \in Addresses : steps < MaxSteps /\ SetBalance(a, 1) /\ UNCHANGED twin
    \/ \E a \in Addresses : steps < MaxSteps /\ SetNonce(a, 1) /\ UNCHANGED twin
    \/ \E a \in Addresses : steps < MaxSteps /\ SetCode(a, <<96, 0>>) /\ UNCHANGED twin
    \/ \E a \in Addresses : steps < MaxSteps /\ DeleteCode(a) /\ UNCHANGED twin
    \/ \E a \in Addresses, v \in {0, 1} : steps < MaxSteps /\ SetStorage(a, 0, v) /\ UNCHANGED twin
    \/ \E a \in Addresses : steps < MaxSteps /\ DeleteStorage(a) /\ UNCHANGED twin
    \/ \E a \in Addresses : steps < MaxSteps /\ DeleteAccount(a) /\ UNCHANGED twin
    \/ \E a \in Addresses : steps < MaxSteps /\ TouchAccount(a) /\ UNCHANGED twin
    \/ \E a \in Addresses : steps < MaxSteps /\ Query(a) /\ UNCHANGED twin
    \/ steps < MaxSteps /\ Snapshot /\ UNCHANGED twin
    \/ \E sn \in snaps : steps < MaxSteps /\ Revert(sn) /\ UNCHANGED twin
    \/ \E sn \in snaps : steps < MaxSteps /\ Commit(sn) /\ UNCHANGED twin
    \/ steps < MaxSteps /\ Persist /\ UNCHANGED twin

Spec == Init /\ [][Next]_vars

\* storage operations on both addresses, two slots, the whole value range
NextStorage ==
    \/ \E a \in Addresses, sl \in Slots, v \in UintValues :
            steps < MaxStorageSteps /\ SetStorage(a, sl, v) /\ UNCHANGED twin
    \/ \E a \in Addresses : steps < MaxStorageSteps /\ DeleteStorage(a) /\ UNCHANGED twin
    \/ \E a \in Addresses : steps < MaxStorageSteps /\ DeleteAccount(a) /\ UNCHANGED twin
    \/ \E a \in Addresses : steps < MaxStorageSteps /\ Query(a) /\ UNCHANGED twin
    \/ steps < MaxStorageSteps /\ Snapshot /\ UNCHANGED twin
    \/ \E sn \in snaps : steps < MaxStorageSteps /\ Revert(sn) /\ UNCHANGED twin
    \/ \E sn \in snaps : steps < MaxStorageSteps /\ Commit(sn) /\ UNCHANGED twin
    \/ steps < MaxStorageSteps /\ Persist /\ UNCHANGED twin

SpecStorage == Init /\ [][NextStorage]_vars

\* long runs of journal operations around a few mutations of one account
NextJournal ==
    \/ steps < MaxJournalSteps /\ SetBalance(Addr(1), 1) /\ UNCHANGED twin
    \/ steps < MaxJournalSteps /\ DeleteAccount(Addr(1)) /\ UNCHANGED twin
    \/ steps < MaxJournalSteps /\ SetCode(Addr(2), <<96, 0>>) /\ UNCHANGED twin
    \/ steps < MaxJournalSteps /\ Query(Addr(1)) /\ UNCHANGED twin
    \/ steps < MaxJournalSteps /\ Snapshot /\ UNCHANGED twin
    \/ \E sn \in snaps : steps < MaxJournalSteps /\ Revert(sn) /\ UNCHANGED twin
    \/ \E sn \in snaps : steps < MaxJournalSteps /\ Commit(sn) /\ UNCHANGED twin
    \/ steps < MaxJournalSteps /\ Persist /\ UNCHANGED twin

SpecJournal == Init /\ [][NextJournal]_vars

\* checkpoint lifetime: journal operations around writes of two kinds
NextCheckpoint ==
    \/ steps < MaxCheckpointSteps /\ SetBalance(Addr(1), 1) /\ UNCHANGED twin
    \/ steps < MaxCheckpointSteps /\ SetCode(Addr(2), <<96, 0>>) /\ UNCHANGED twin
    \/ steps < MaxCheckpointSteps /\ Snapshot /\ UNCHANGED twin
    \/ \E sn \in snaps : steps < MaxCheckpointSteps /\ Revert(sn) /\ UNCHANGED twin
    \/ \E sn \in snaps : steps < MaxCheckpointSteps /\ Commit(sn) /\ UNCHANGED twin
    \/ steps < MaxCheckpointSteps /\ Persist /\ UNCHANGED twin

SpecCheckpoint == Init /\ [][NextCheckpoint]_vars

\* code operations on both addresses with every code string
NextCode ==
    \/ \E a \in Addresses, c \in Codes : steps < MaxCodeSteps /\ SetCode(a, c) /\ UNCHANGED twin
    \/ \E a \in Addresses : steps < MaxCodeSteps /\ DeleteCode(a) /\ UNCHANGED twin
    \/ \E a \in Addresses : steps < MaxCodeSteps /\ DeleteAccount(a) /\ UNCHANGED twin
    \/ \E a \in Addresses : steps < MaxCodeSteps /\ Query(a) /\ UNCHANGED twin
    \/ steps < MaxCodeSteps /\ Snapshot /\ UNCHANGED twin
    \/ \E sn \in snaps : steps < MaxCodeSteps /\ Revert(sn) /\ UNCHANGED twin
    \/ \E sn \in snaps : steps < MaxCodeSteps /\ Commit(sn) /\ UNCHANGED twin
    \/ steps < MaxCodeSteps /\ Persist /\ UNCHANGED twin

SpecCode == Init /\ [][NextCode]_vars

\* integer arguments in and out of range, on one account
NextRange ==
    \/ \E v \in AnyValues : steps < MaxRangeSteps /\ SetBalanceAny(Addr(1), v) /\ UNCHANGED twin
    \/ \E v \in AnyValues : steps < MaxRangeSteps /\ SetNonceAny(Addr(1), v) /\ UNCHANGED twin
    \/ \E sl \in {-1, 0}, v \in AnyValues :
            steps < MaxRangeSteps /\ SetStorageAny(Addr(1), sl, v) /\ UNCHANGED twin
    \/ \E d \in {-1, 1} : steps < MaxRangeSteps /\ DeltaBalance(Addr(1), d) /\ UNCHANGED twin
    \/ steps < MaxRangeSteps /\ IncrementNonce(Addr(1)) /\ UNCHANGED twin
    \/ steps < MaxRangeSteps /\ DeleteAccount(Addr(1)) /\ UNCHANGED twin
    \/ steps < MaxRangeSteps /\ Snapshot /\ UNCHANGED twin
    \/ \E sn \in snaps : steps < MaxRangeSteps /\ Revert(sn) /\ UNCHANGED twin
    \/ steps < MaxRangeSteps /\ Persist /\ UNCHANGED twin

SpecRange == Init /\ [][NextRange]_vars

\* storage writes of two accounts that may hold identical storage, with
\* snapshots, reverts, commits and persists around them
NextIsolation ==
    \/ \E a \in Addresses, sl \in Slots, v \in {0, 1} :
            steps < MaxIsolationSteps /\ SetStorage(a, sl, v) /\ UNCHANGED twin
    \/ \E a \in Addresses : steps < MaxIsolationSteps /\ DeleteStorage(a) /\ UNCHANGED twin
    \/ steps < MaxIsolationSteps /\ Snapshot /\ UNCHANGED twin
    \/ \E sn \in snaps : steps < MaxIsolationSteps /\ Revert(sn) /\ UNCHANGED twin
    \/ \E sn \in snaps : steps < MaxIsolationSteps /\ Commit(sn) /\ UNCHANGED twin
    \/ steps < MaxIsolationSteps /\ Persist /\ UNCHANGED twin

SpecIsolation == Init /\ [][NextIsolation]_vars

\* Two independent States over equal backing DBs, started from the same root
\* and given the same mutations, snapshots, reverts, commits and persists.  The
\* second State lives in twin: s is the State, roots the root stored in each
\* of its snapshots.  Its checkpoint ids are its own (shifted by MaxSnapshots).
\* Queries are not part of the common sequence: Query acts on the first State
\* alone.
InitTwin ==
    \E s \in InitialStates :
        /\ InitState(s)
        /\ twin = [on |-> TRUE, s |-> s, roots |-> [k \in {} |-> <<>>]]

TwinId(id) == id + MaxSnapshots

TwinSnap(id) == [root |-> twin.roots[id], id |-> TwinId(id)]

TwinSetBalance(a, v) ==
    SetBalance(a, v) /\ twin' = [twin EXCEPT !.s = set_balance(@, a, v)]

TwinSetNonce(a, v) ==
    SetNonce(a, v) /\ twin' = [twin EXCEPT !.s = set_nonce(@, a, v)]

TwinDeleteAccount(a) ==
    DeleteAccount(a) /\ twin' = [twin EXCEPT !.s = delete_account(@, a)]

TwinSnapshot ==
    /\ Snapshot
    /\ twin' = [twin EXCEPT !.s = snapshot_state(@, TwinId(next_id)),
                            !.roots = MapSet(@, next_id, twin.s.root)]

TwinRevert(sn) ==
    /\ Revert(sn)
    /\ twin' = [twin EXCEPT !.s =
                    IF JournalHas(twin.s.journal, TwinId(sn.id))
                    THEN revert(@, TwinSnap(sn.id))
                    ELSE revert_failed(@, TwinSnap(sn.id))]

TwinCommit(sn) ==
    /\ Commit(sn)
    /\ twin' = [twin EXCEPT !.s =
                    IF JournalHas(twin.s.journal, TwinId(sn.id))
                    THEN commit(@, TwinSnap(sn.id))
                    ELSE @]

TwinPersist == Persist /\ twin' = [twin EXCEPT !.s = persist(@)]

NextTwin ==
    \/ \E a \in Addresses : steps < MaxTwinSteps /\ TwinSetBalance(a, 1)
    \/ \E a \in Addresses : steps < MaxTwinSteps /\ TwinSetNonce(a, 1)
    \/ \E a \in Addresses : steps < MaxTwinSteps /\ TwinDeleteAccount(a)
    \/ \E a \in Addresses : steps < MaxTwinSteps /\ Query(a) /\ UNCHANGED twin
    \/ steps < MaxTwinSteps /\ TwinSnapshot
    \/ \E sn \in snaps : steps < MaxTwinSteps /\ TwinRevert(sn)
    \/ \E sn \in snaps : steps < MaxTwinSteps /\ TwinCommit(sn)
    \/ steps < MaxTwinSteps /\ TwinPersist

SpecTwin == InitTwin /\ [][NextTwin]_vars

\* a CachedRLPDB of account records with a small LRU over a plain BaseDB:
\*   lru_db     the wrapped BaseDB (key -> encoded object)
\*   lru_cache  the LRU of decoded objects
\*   lru_size   cache_size
\*   lru_last   history: the last call, what it returned (ret) and what an
\*              uncached CachedRLPDB over the same BaseDB returns (ref)
CacheKeys == {Addr(1), Addr(2), Addr(3)}
CacheObjects == {Account(1, 0, BLANK_ROOT_HASH, EMPTY_SHA3),
                 Account(0, 1, BLANK_ROOT_HASH, EMPTY_SHA3)}

\* BaseDB.get(key, b'')
BaseDbGet(db, k) == IF k \in DOMAIN db THEN db[k] ELSE <<>>

StateIdle ==
    /\ wrapped = EmptyMap
    /\ journal = NewJournal
    /\ root = BLANK_ROOT_HASH
    /\ cache = <<>>
    /\ snaps = {}
    /\ next_id = 1
    /\ crashed = FALSE
    /\ last = [op |-> "init", addr |-> <<>>, slot |-> 0, val |-> 0, code |-> <<>>,
               id |-> 0, ok |-> TRUE, pat |-> "none", obs |-> NoObs, chain |-> NoChain,
               live |-> {}, prev_del |-> FALSE, prev_clr |-> FALSE, had |-> FALSE]
    /\ since = [k \in {} |-> "other"]
    /\ snap_obs = [k \in {} |-> NoObs]
    /\ ended = {}
    /\ steps = 0

InitCache ==
    /\ StateIdle
    /\ twin = NoTwin
    /\ lru_db = EmptyMap
    /\ lru_cache = <<>>
    /\ lru_size \in 1..MaxCacheSize
    /\ lru_last = [op |-> "init", key |-> <<>>, ret |-> ZeroAccount, ref |-> ZeroAccount,
                   ok |-> TRUE]
    /\ lru_steps = 0

\* obj = cached[key]
CacheGet(k) ==
    /\ lru_steps < MaxCacheSteps
    /\ lru_cache' = CachedGetItemCache(lru_cache, k, BaseDbGet(lru_db, k), ZeroAccount,
                                       lru_size)
    /\ lru_last' = [op |-> "get", key |-> k,
                    ret |-> CachedGetItem(lru_cache, k, BaseDbGet(lru_db, k), ZeroAccount,
                                          lru_size),
                    ref |-> GetItemUncached(BaseDbGet(lru_db, k), ZeroAccount),
                    ok |-> TRUE]
    /\ lru_steps' = lru_steps + 1
    /\ UNCHANGED <<lru_db, lru_size, state_vars>>

\* cached[key] = obj
CacheSet(k, obj) ==
    /\ lru_steps < MaxCacheSteps
    /\ lru_cache' = CachedSetItemCache(lru_cache, k, obj, lru_size)
    /\ lru_db' = MapSet(lru_db, k, RlpEncodeAccount(obj))
    /\ lru_last' = [op |-> "set", key |-> k, ret |-> obj, ref |-> obj, ok |-> TRUE]
    /\ lru_steps' = lru_steps + 1
    /\ UNCHANGED <<lru_size, state_vars>>

\* del cached[key]: the BaseDB raises not-found on a missing key
CacheDel(k) ==
    /\ lru_steps < MaxCacheSteps
    /\ IF k \in DOMAIN lru_db
       THEN /\ lru_db' = MapDel(lru_db, k)
            /\ lru_cache' = CachedDelItemCache(lru_cache, k)
       ELSE UNCHANGED <<lru_db, lru_cache>>
    /\ lru_last' = [op |-> "del", key |-> k, ret |-> ZeroAccount, ref |-> ZeroAccount,
                    ok |-> k \in DOMAIN lru_db]
    /\ lru_steps' = lru_steps + 1
    /\ UNCHANGED <<lru_size, state_vars>>

NextCache ==
    \/ \E k \in CacheKeys : CacheGet(k) /\ UNCHANGED twin
    \/ \E k \in CacheKeys, obj \in CacheObjects : CacheSet(k, obj) /\ UNCHANGED twin
    \/ \E k \in CacheKeys : CacheDel(k) /\ UNCHANGED twin

SpecCache == InitCache /\ [][NextCache]_vars

\* ------------------------------------------------------------------------
\* Properties
\* ------------------------------------------------------------------------
MutatingOps == {"set_balance", "set_nonce", "set_code", "delete_code", "set_storage",
                "delete_storage", "touch_account", "delete_account"}

\* while no journal-misuse error was raised every trie the State refers to can
\* be read, so every account operation returns normally
AlwaysReadable ==
    ~crashed =>
        /\ \A a \in Addresses : StorageReadable(St, a)
        /\ last.op \in MutatingOps \cup {"query"} => last.ok

\* C1: snapshot/revert invariance.  After snap = snapshot(), one or more account
\* mutations and revert(snap), the root and the result of every query are what
\* they were just before snapshot().
C1_SnapshotRevertInvariance ==
    (last.op = "revert" /\ last.ok /\ last.pat = "mutations") => Obs(St) = last.obs

\* C1, root only: revert(snap) restores the root captured by snapshot()
C1_RevertRestoresRoot ==
    (last.op = "revert" /\ last.ok /\ last.pat = "mutations") => root = last.obs.root

\* C2: nested snapshots.  After s1 = snapshot(); mutations; s2 = snapshot();
\* mutations; commit(s2); revert(s1), the root and the result of every query are
\* what they were just before s1 was taken.
C2_NestedSnapshotRevert ==
    (last.op = "revert" /\ last.ok /\ last.pat = "inner_committed") => Obs(St) = last.obs

\* C3: snapshot/commit/persist.  After snap = snapshot(); mutations; commit(snap);
\* persist(), the root and the result of every query are what they were just
\* after the mutations, the journal holds no pending changeset, and a fresh
\* State over the same backing DB with that root answers every query the same.
C3_CommitPersistMaterializes ==
    (last.op = "persist" /\ last.pat = "committed_mutations") =>
        /\ Obs(St) = last.obs
        /\ journal = NewJournal
        /\ Queries(NewState(wrapped, root)) = Queries(St)

\* C4: delete_account removes the account.  Right after delete_account(a) every
\* query on a answers as for the zero account, and a write that follows it
\* starts from the zero account.
C4_DeleteAccountRemoves ==
    /\ last.op = "delete_account" =>
        /\ get_balance(St, last.addr) = 0
        /\ get_nonce(St, last.addr) = 0
        /\ get_code_hash(St, last.addr) = EMPTY_SHA3
        /\ \A sl \in Slots : get_storage(St, last.addr, sl) = 0
    /\ (last.prev_del /\ last.op = "set_balance") =>
        ReadAccount(St, last.addr) = [ZeroAccount EXCEPT !.balance = last.val]
    /\ (last.prev_del /\ last.op = "set_nonce") =>
        ReadAccount(St, last.addr) = [ZeroAccount EXCEPT !.nonce = last.val]
    /\ (last.prev_del /\ last.op = "set_code") =>
        ReadAccount(St, last.addr) = [ZeroAccount EXCEPT !.code_hash = Keccak(last.code)]
    /\ (last.prev_del /\ last.op = "set_storage") =>
        \A sl \in Slots :
            get_storage(St, last.addr, sl) = IF sl = last.slot THEN last.val ELSE 0

\* the record stored in the account trie under address a, decoded
StoredAccount(s, a) == GetItemUncached(HashTrieGet(TrieView(s), s.root, a), ZeroAccount)

\* C5: cache/DB/root consistency.  After every mutating account operation each
\* cached record equals the decoding of the record stored in the account trie
\* (the zero account when none is stored), and the root is the root of the trie
\* holding the stored records.
C5_CacheTrieConsistent ==
    last.op \in MutatingOps =>
        /\ \A i \in 1..Len(cache) : cache[i].obj = StoredAccount(St, cache[i].key)
        /\ TrieReadable(TrieView(St), root)
        /\ root = TrieRootOf(TrieContents(TrieView(St), root))

\* C6: LRU correctness.  Every get on a CachedRLPDB returns what an uncached
\* reference returns: the decoding of the object stored in the wrapped DB, or
\* default_result when the key is absent.
C6_CacheMatchesUncached ==
    lru_last.op = "get" => lru_last.ret = lru_last.ref

\* C7: checkpoint lifetime.  A successful revert(s) or commit(s) ends s and every
\* checkpoint taken after it and keeps the earlier ones; persist() ends them
\* all; a revert or commit succeeds exactly when its checkpoint is still in the
\* journal and otherwise raises the unknown-checkpoint error, so it fails on
\* every ended checkpoint.
C7_CheckpointLifetime ==
    /\ ended \cap LiveIds = {}
    /\ (last.op \in {"revert", "commit"} /\ last.ok) =>
            LiveIds = {k \in last.live : k < last.id}
    /\ last.op = "commit" /\ last.ok => Obs(St) = last.obs
    /\ last.op = "persist" => LiveIds = {} /\ journal = NewJournal
    /\ last.op \in {"revert", "commit"} =>
            /\ last.ok <=> last.id \in last.live
            /\ crashed <=> ~last.ok

\* a revert or commit of an ended checkpoint failed while an earlier
\* checkpoint is still usable
C7_Witness ==
    /\ last.op \in {"revert", "commit"}
    /\ ~last.ok
    /\ crashed
    /\ last.id \in ended
    /\ \E k \in LiveIds : k < last.id

\* C8: nothing is flushed before persist.  Every operation other than persist()
\* leaves the backing BaseDB as it was.
C8_NothingFlushedBeforePersist ==
    [][last'.op # "persist" => wrapped' = wrapped]_vars

\* code was written while no snapshot was open: it sits in the journal and
\* not in the backing DB
C8_Witness ==
    /\ last.op = "set_code"
    /\ LiveIds = {}
    /\ Keccak(last.code) \in DOMAIN JournalOverlay(journal)
    /\ Keccak(last.code) \notin DOMAIN wrapped

\* C9: storage set/get.  Right after set_storage(a, s, v), get_storage(a, s)
\* returns v.
C9_StorageSetGet ==
    last.op = "set_storage" =>
        last.ok /\ get_storage(St, last.addr, last.slot) = last.val

\* the largest value was written over a slot holding another nonzero value
C9_Witness ==
    /\ last.op = "set_storage"
    /\ last.val = MaxUint
    /\ last.chain.pre_val = 1
    /\ get_storage(St, last.addr, last.slot) = MaxUint

\* the storage trie holding exactly the nonzero slots of address a
NonzeroStorage(a) ==
    [k \in {Keccak(storage_key_map(sl)) : sl \in {x \in Slots : get_storage(St, a, x) # 0}}
        |-> RlpEncodeInt(get_storage(St, a,
                CHOOSE sl \in Slots : Keccak(storage_key_map(sl)) = k))]

\* set_storage(a, s, 0) has just followed set_storage(a, s, v # 0)
ZeroAfterNonzero == last.op = "set_storage" /\ last.val = 0 /\ last.chain.armed

\* C10 as stated: the storage root is the root of the trie of the nonzero slots,
\* and after set_storage(a, s, v # 0); set_storage(a, s, 0) the slot reads 0 and
\* the storage root is the one before the first write.
C10_ZeroWriteRestoresRoot ==
    /\ ~crashed => \A a \in Addresses :
            ReadAccount(St, a).storage_root = TrieRootOf(NonzeroStorage(a))
    /\ ZeroAfterNonzero =>
            /\ get_storage(St, last.addr, last.slot) = 0
            /\ ReadAccount(St, last.addr).storage_root = last.chain.sroot

\* C10 amended: the storage root is restored when the slot held 0 before the
\* first write.
C10_ZeroWriteDeletes ==
    /\ ~crashed => \A a \in Addresses :
            ReadAccount(St, a).storage_root = TrieRootOf(NonzeroStorage(a))
    /\ ZeroAfterNonzero =>
            /\ get_storage(St, last.addr, last.slot) = 0
            /\ last.chain.pre_val = 0 =>
                    ReadAccount(St, last.addr).storage_root = last.chain.sroot

\* a slot holding 0 was written nonzero, then 0, beside another nonzero slot
C10_Witness ==
    /\ ZeroAfterNonzero
    /\ last.chain.pre_val = 0
    /\ last.chain.sroot # BLANK_ROOT_HASH
    /\ ReadAccount(St, last.addr).storage_root = last.chain.sroot

\* C11: code round-trip.  Right after set_code(a, bs), get_code(a) returns bs and
\* get_code_hash(a) returns keccak(bs), for the empty string too.
C11_CodeRoundTrip ==
    last.op = "set_code" =>
        /\ last.ok
        /\ get_code(St, last.addr) = last.code
        /\ get_code_hash(St, last.addr) = Keccak(last.code)

\* the empty string was set over an account that held nonempty code
C11_Witness ==
    /\ last.op = "set_code"
    /\ last.code = <<>>
    /\ last.obs.q[last.addr].code # <<>>
    /\ get_code(St, last.addr) = <<>>
    /\ get_code_hash(St, last.addr) = EMPTY_SHA3

\* C12: delete_code only resets the hash.  Right after delete_code(a), a has
\* empty code and the empty code hash, every entry the code store held is still
\* there (so the store still returns bs under the hash h that a had), and every
\* other account answers get_code and get_code_hash as before.
C12_DeleteCodeResetsHash ==
    last.op = "delete_code" =>
        /\ get_code(St, last.addr) = <<>>
        /\ get_code_hash(St, last.addr) = EMPTY_SHA3
        /\ LET h == last.obs.q[last.addr].code_hash
               bs == last.obs.q[last.addr].code
           IN  h # EMPTY_SHA3 => h \in DOMAIN RawView(St) /\ RawView(St)[h] = bs
        /\ \A b \in Addresses \ {last.addr} :
                /\ get_code(St, b) = last.obs.q[b].code
                /\ get_code_hash(St, b) = last.obs.q[b].code_hash

\* the code of a was deleted while another account holds the same code
C12_Witness ==
    /\ last.op = "delete_code"
    /\ last.obs.q[last.addr].code = <<96, 0>>
    /\ get_code(St, last.addr) = <<>>
    /\ \E b \in Addresses \ {last.addr} :
            /\ get_code_hash(St, b) = last.obs.q[last.addr].code_hash
            /\ get_code(St, b) = <<96, 0>>

\* C13: determinism.  Two independent States started from the same root over
\* equal backing DBs and given the identical sequence of mutations, snapshots,
\* reverts, commits and persists have the identical root after every step.
C13_Determinism == twin.on => root = twin.s.root

\* nothing is stored: the backing DB and the journal hold no entry, as in a
\* State constructed with the empty-trie root over an empty backing DB
FreshDb == wrapped = EmptyMap /\ JournalOverlay(journal) = EmptyMap

\* what every query answers for an address without a record
ZeroQueries ==
    [balance |-> 0, nonce |-> 0, code |-> <<>>, code_hash |-> EMPTY_SHA3,
     storage |-> [sl \in Slots |-> 0]]

\* C14: fresh-state defaults.  While nothing is stored the root is the
\* empty-trie root, every query on every address and slot answers with the
\* zero default, and no query fails.
C14_FreshDefaults ==
    FreshDb =>
        /\ root = BLANK_ROOT_HASH
        /\ \A a \in Addresses : Queries(St)[a] = ZeroQueries
        /\ last.op = "query" => last.ok

\* a missing address was queried on the fresh State and is now cached
C14_Witness ==
    /\ FreshDb
    /\ last.op = "query"
    /\ LRUContains(cache, last.addr)
    /\ ~LRUContains(cache, CHOOSE b \in Addresses : b # last.addr)
    /\ get_balance(St, last.addr) = 0

\* C15: commit is a pure journal operation.  commit(snapshot) leaves the root
\* and the result of every query as they were just before it, whatever root
\* the snapshot stores.
C15_CommitKeepsObservables ==
    last.op = "commit" => Obs(St) = last.obs

\* a commit succeeded on a snapshot whose stored root is not the current root
C15_Witness ==
    /\ last.op = "commit"
    /\ last.ok
    /\ \E sn \in snaps : sn.id = last.id /\ sn.root # root
    /\ Obs(St) = last.obs

\* C16: delete_storage clears the account's storage.  Right after
\* delete_storage(a) every slot of a reads 0 and the balance, nonce and code
\* hash of a are what they were; a set_storage(a, s1, v) that follows it leaves
\* every slot other than s1 at 0.
C16_DeleteStorageClears ==
    /\ last.op = "delete_storage" =>
        /\ \A sl \in Slots : get_storage(St, last.addr, sl) = 0
        /\ get_balance(St, last.addr) = last.obs.q[last.addr].balance
        /\ get_nonce(St, last.addr) = last.obs.q[last.addr].nonce
        /\ get_code_hash(St, last.addr) = last.obs.q[last.addr].code_hash
    /\ (last.op = "set_storage" /\ last.prev_clr) =>
        \A sl \in Slots :
            get_storage(St, last.addr, sl) = IF sl = last.slot THEN last.val ELSE 0

\* the storage of an account with a balance and a nonzero slot was cleared
C16_Witness ==
    /\ last.op = "delete_storage"
    /\ last.obs.q[last.addr].storage[0] # 0
    /\ last.obs.q[last.addr].balance # 0
    /\ get_storage(St, last.addr, 0) = 0
    /\ get_balance(St, last.addr) # 0

\* C17: touch_account is observably a no-op.  touch_account(a) leaves the
\* result of every query on every address as it was; the root is unchanged
\* when a record for a was stored in the account trie; when none was stored
\* the zero account record is inserted and the root changes.
C17_TouchAccountFrame ==
    last.op = "touch_account" =>
        /\ Queries(St) = last.obs.q
        /\ last.had => root = last.obs.root
        /\ ~last.had =>
            /\ root # last.obs.root
            /\ HashTrieContains(TrieView(St), root, last.addr)
            /\ StoredAccount(St, last.addr) = ZeroAccount

RangeOps == {"set_balance", "set_nonce", "set_storage", "delta_balance", "increment_nonce"}

\* the State after the step
StNext == [wrapped |-> wrapped', journal |-> journal', root |-> root', cache |-> cache']

\* C18: range checks precede writes.  An operation whose integer argument or
\* result is outside [0, 2^256 - 1] raises the validation error and leaves the
\* root, the journal, the backing DB and every query result unchanged;
\* otherwise delta_balance(a, d) sets the balance to exactly get_balance(a) + d
\* and increment_nonce(a) sets the nonce to exactly get_nonce(a) + 1.
C18_RangeChecksPrecedeWrites ==
    [][last'.op \in RangeOps =>
        /\ ~last'.ok =>
            /\ root' = root
            /\ journal' = journal
            /\ wrapped' = wrapped
            /\ Queries(StNext) = Queries(St)
        /\ (last'.ok /\ last'.op = "delta_balance") =>
            get_balance(StNext, last'.addr) = get_balance(St, last'.addr) + last'.val
        /\ (last'.ok /\ last'.op = "increment_nonce") =>
            get_nonce(StNext, last'.addr) = get_nonce(St, last'.addr) + 1
        /\ last'.ok <=>
            CASE last'.op = "delta_balance" ->
                    get_balance(St, last'.addr) + last'.val \in 0..MaxUint
              [] last'.op = "increment_nonce" -> get_nonce(St, last'.addr) < MaxUint
              [] OTHER -> last'.val \in 0..MaxUint /\ last'.slot \in 0..MaxUint
      ]_vars

\* delta_balance was refused at the largest balance: no wrap-around
C18_Witness ==
    /\ last.op = "delta_balance"
    /\ ~last.ok
    /\ last.val = 1
    /\ get_balance(St, last.addr) = MaxUint
    /\ Obs(St) = last.obs

\* C19: a failed revert changes nothing.  When revert(snapshot) names a
\* checkpoint the journal does not know, the error is raised and the root, the
\* journal and every query result are what they were before the call.
C19_FailedRevertChangesNothing ==
    [][(last'.op = "revert" /\ ~last'.ok) =>
        /\ root' = root
        /\ journal' = journal
        /\ Queries(StNext) = Queries(St)
      ]_vars

\* C19 without the root: a failed revert leaves the journal, the backing DB
\* and the account cache as they were
C19_FailedRevertKeepsJournal ==
    [][(last'.op = "revert" /\ ~last'.ok) =>
        journal' = journal /\ wrapped' = wrapped /\ cache' = cache]_vars

\* C20: queries are read-only.  A query never changes the root, the journal
\* or the backing DB, and an address without a record in the account trie is
\* answered with the zero account, no record being inserted.
C20_QueriesReadOnly ==
    [][last'.op = "query" =>
        /\ root' = root
        /\ journal' = journal
        /\ wrapped' = wrapped
        /\ ~last'.had =>
            /\ Queries(StNext)[last'.addr] = ZeroQueries
            /\ ~HashTrieContains(TrieView(StNext), root', last'.addr)
      ]_vars

\* C20, frame only: a query never changes the root, the journal, the backing
\* DB or the result of any query
C20_QueriesFrame ==
    [][last'.op = "query" =>
        /\ root' = root
        /\ journal' = journal
        /\ wrapped' = wrapped
        /\ Queries(StNext) = Queries(St)
      ]_vars

\* the storage every account reads, slot by slot
StorageOf(q) == [a \in Addresses |-> q[a].storage]

C21_WriteFrame ==
    /\ last.op = "set_storage" =>
        \A a \in Addresses, sl \in Slots :
            (a # last.addr \/ sl # last.slot) =>
                get_storage(St, a, sl) = last.obs.q[a].storage[sl]
    /\ last.op = "delete_storage" =>
        \A a \in Addresses \ {last.addr}, sl \in Slots :
            get_storage(St, a, sl) = last.obs.q[a].storage[sl]

====
